---- MODULE Spec2Model ----
(***************************************************************************)
(* Waiting-list API of the ambulance service                               *)
(* (internal/ambulance_wl/impl_ambulance_waiting_list.go).                 *)
(*                                                                         *)
(* Every handler passes a closure to updateAmbulanceFunc.  The closures    *)
(* are translated from the source as the operators CreateEntry,            *)
(* DeleteEntry, GetEntries, GetEntry and UpdateEntry.  updateAmbulanceFunc *)
(* and Ambulance.reconcileWaitingList are part of the package but their    *)
(* source is not available; they are modelled from the design document     *)
(* (sections 4.1, 4.2 and 4.4).                                            *)
(*                                                                         *)
(* Conventions: Go slices are 0-based, sequences here are 1-based, so      *)
(* slices.IndexFunc's -1 ("not found") is 0 here.  time.Time is an         *)
(* integer, the zero time.Time{} being 0; negative values are instants     *)
(* before it.  uuid.NewString() returns the next unused element of         *)
(* UuidPool, which is disjoint from the ids clients send.  A request's      *)
(* body binds the same way on every attempt (bindOk is part of the         *)
(* request).  The stored ambulance may carry no waitingList at all: it     *)
(* is then loaded as a nil slice (listNil), which has no elements.         *)
(***************************************************************************)
EXTENDS Integers, Sequences, FiniteSets, TLC

VARIABLES exists, list, listNil, version, pc, req, snap, out, attempts, resp,
          created, updated, deleted, nextUuid, started

vars == <<exists, list, listNil, version, pc, req, snap, out, attempts, resp,
          created, updated, deleted, nextUuid, started>>

\* ------------------------------------------------------------------ bounds
MaxReqs == 3
MaxAttempts == 2

Procs == {"p1", "p2", "p3"}

\* ids and patient ids sent by clients; "" is an absent JSON field
NewSentinel == "@new"
BodyIds == {"", NewSentinel, "a"}
BodyPatientIds == {"", "P1", "P2"}
\* timestamps: the zero time, later instants, and one instant before it
TimeVals == {-1, 0, 1, 2}
\* estimatedDurationMinutes: absent (0), negative, and two positive values
DurVals == {-1, 0, 15, 30}
UuidPool == <<"u1", "u2", "u3", "u4", "u5", "u6", "u7", "u8", "u9", "u10">>

StatusOK == 200
StatusNoContent == 204
StatusBadRequest == 400
StatusNotFound == 404
StatusConflict == 409
StatusInternalServerError == 500

\* ------------------------------------------------------------------ data
\* WaitingListEntry, as bound from a JSON body: absent fields are zero values
WaitingListEntry(id, patientId, waitingSince, duration) ==
    [Id |-> id, PatientId |-> patientId, WaitingSince |-> waitingSince,
     EstimatedDurationMinutes |-> duration]

ZeroEntry == WaitingListEntry("", "", 0, 0)

\* slices.IndexFunc, given the indices whose element satisfies the test: the
\* first of them, 0 if there is none
IndexFunc(hits) ==
    IF hits = {} THEN 0 ELSE CHOOSE i \in hits : \A j \in hits : i <= j

Ids(s) == {s[i].Id : i \in 1..Len(s)}
PatientIds(s) == {s[i].PatientId : i \in 1..Len(s)}

\* append(s[:i], s[i+1:]...)
RemoveAt(s, i) == [k \in 1..(Len(s) - 1) |-> IF k < i THEN s[k] ELSE s[k + 1]]

\* ---------------------------------------------------------- reconciliation
\* Insert e behind every element that is not after it (keeps equal elements
\* in their order of insertion)
RECURSIVE InsertByWaitingSince(_, _)
InsertByWaitingSince(e, s) ==
    IF s = <<>> THEN <<e>>
    ELSE IF e.WaitingSince < Head(s).WaitingSince THEN <<e>> \o s
    ELSE <<Head(s)>> \o InsertByWaitingSince(e, Tail(s))

RECURSIVE StableSort(_)
StableSort(s) ==
    IF s = <<>> THEN <<>>
    ELSE InsertByWaitingSince(s[Len(s)], StableSort(SubSeq(s, 1, Len(s) - 1)))

\* A sort by waitingSince that takes the entries from the back, so that
\* entries with equal waitingSince change places
reconcileWaitingListUnstable(s) ==
    StableSort([i \in 1..Len(s) |-> s[Len(s) + 1 - i]])

\* Ambulance.reconcileWaitingList: stable sort by waitingSince ascending
reconcileWaitingList(s) == StableSort(s)

\* --------------------------------------------------------- mutate closures
\* What a closure hands back to updateAmbulanceFunc: the aggregate (agg is
\* FALSE for a nil *Ambulance), the payload and the status code.  counted
\* records that the closure reached its counter's Add call, usedUuid that it
\* called uuid.NewString().
Result(agg, l, kind, payload, status, counted, usedUuid) ==
    [agg |-> agg, list |-> l, kind |-> kind, payload |-> payload,
     status |-> status, counted |-> counted, usedUuid |-> usedUuid]

ErrorResult(status, usedUuid) ==
    Result(FALSE, <<>>, "error", <<>>, status, FALSE, usedUuid)

\* CreateEntry with the conflict test on the patient id alone
CreateEntryPatientOnly(wl, bindOk, body, uuid) ==
    IF ~bindOk THEN ErrorResult(StatusBadRequest, FALSE)
    ELSE IF body.PatientId = "" THEN ErrorResult(StatusBadRequest, FALSE)
    ELSE
      LET gen == body.Id = "" \/ body.Id = NewSentinel
          entry == IF gen THEN [body EXCEPT !.Id = uuid] ELSE body
          conflictIndx ==
              IndexFunc({i \in 1..Len(wl) : entry.PatientId = wl[i].PatientId})
      IN IF conflictIndx > 0 THEN ErrorResult(StatusConflict, gen)
         ELSE
           LET appended == reconcileWaitingList(Append(wl, entry))
               entryIndx ==
                   IndexFunc({i \in 1..Len(appended) : entry.Id = appended[i].Id})
           IN IF entryIndx = 0
              THEN ErrorResult(StatusInternalServerError, gen)
              ELSE Result(TRUE, appended, "entry", <<appended[entryIndx]>>,
                          StatusOK, TRUE, gen)

\* CreateEntry with the conflict test on the id alone
CreateEntryIdOnly(wl, bindOk, body, uuid) ==
    IF ~bindOk THEN ErrorResult(StatusBadRequest, FALSE)
    ELSE IF body.PatientId = "" THEN ErrorResult(StatusBadRequest, FALSE)
    ELSE
      LET gen == body.Id = "" \/ body.Id = NewSentinel
          entry == IF gen THEN [body EXCEPT !.Id = uuid] ELSE body
          conflictIndx ==
              IndexFunc({i \in 1..Len(wl) : entry.Id = wl[i].Id})
      IN IF conflictIndx > 0 THEN ErrorResult(StatusConflict, gen)
         ELSE
           LET appended == reconcileWaitingList(Append(wl, entry))
               entryIndx ==
                   IndexFunc({i \in 1..Len(appended) : entry.Id = appended[i].Id})
           IN IF entryIndx = 0
              THEN ErrorResult(StatusInternalServerError, gen)
              ELSE Result(TRUE, appended, "entry", <<appended[entryIndx]>>,
                          StatusOK, TRUE, gen)

\* CreateEntry that generates an id for an empty id only, not for "@new"
CreateEntryNoSentinel(wl, bindOk, body, uuid) ==
    IF ~bindOk THEN ErrorResult(StatusBadRequest, FALSE)
    ELSE IF body.PatientId = "" THEN ErrorResult(StatusBadRequest, FALSE)
    ELSE
      LET gen == body.Id = ""
          entry == IF gen THEN [body EXCEPT !.Id = uuid] ELSE body
          conflictIndx ==
              IndexFunc({i \in 1..Len(wl) :
                  entry.Id = wl[i].Id \/ entry.PatientId = wl[i].PatientId})
      IN IF conflictIndx > 0 THEN ErrorResult(StatusConflict, gen)
         ELSE
           LET appended == reconcileWaitingList(Append(wl, entry))
               entryIndx ==
                   IndexFunc({i \in 1..Len(appended) : entry.Id = appended[i].Id})
           IN IF entryIndx = 0
              THEN ErrorResult(StatusInternalServerError, gen)
              ELSE Result(TRUE, appended, "entry", <<appended[entryIndx]>>,
                          StatusOK, TRUE, gen)

\* CreateEntry that looks the appended entry up by the id of the request
\* body, not by the id the entry was stored with
CreateEntryLookupBodyId(wl, bindOk, body, uuid) ==
    IF ~bindOk THEN ErrorResult(StatusBadRequest, FALSE)
    ELSE IF body.PatientId = "" THEN ErrorResult(StatusBadRequest, FALSE)
    ELSE
      LET gen == body.Id = "" \/ body.Id = NewSentinel
          entry == IF gen THEN [body EXCEPT !.Id = uuid] ELSE body
          conflictIndx ==
              IndexFunc({i \in 1..Len(wl) :
                  entry.Id = wl[i].Id \/ entry.PatientId = wl[i].PatientId})
      IN IF conflictIndx > 0 THEN ErrorResult(StatusConflict, gen)
         ELSE
           LET appended == reconcileWaitingList(Append(wl, entry))
               entryIndx ==
                   IndexFunc({i \in 1..Len(appended) : body.Id = appended[i].Id})
           IN IF entryIndx = 0
              THEN ErrorResult(StatusInternalServerError, gen)
              ELSE Result(TRUE, appended, "entry", <<appended[entryIndx]>>,
                          StatusOK, TRUE, gen)

\* CreateWaitingListEntry's closure
CreateEntry(wl, bindOk, body, uuid) ==
    IF ~bindOk THEN ErrorResult(StatusBadRequest, FALSE)
    ELSE IF body.PatientId = "" THEN ErrorResult(StatusBadRequest, FALSE)
    ELSE
      LET gen == body.Id = "" \/ body.Id = NewSentinel
          entry == IF gen THEN [body EXCEPT !.Id = uuid] ELSE body
          conflictIndx ==
              IndexFunc({i \in 1..Len(wl) :
                  entry.Id = wl[i].Id \/ entry.PatientId = wl[i].PatientId})
      IN IF conflictIndx > 0 THEN ErrorResult(StatusConflict, gen)
         ELSE
           LET appended == reconcileWaitingList(Append(wl, entry))
               entryIndx ==
                   IndexFunc({i \in 1..Len(appended) : entry.Id = appended[i].Id})
           IN IF entryIndx = 0
              THEN ErrorResult(StatusInternalServerError, gen)
              ELSE Result(TRUE, appended, "entry", <<appended[entryIndx]>>,
                          StatusOK, TRUE, gen)

\* DeleteEntry that keeps only the entries in front of the deleted one
\* (WaitingList[:entryIndx])
DeleteEntryTruncate(wl, entryId) ==
    IF entryId = "" THEN ErrorResult(StatusBadRequest, FALSE)
    ELSE
      LET entryIndx == IndexFunc({i \in 1..Len(wl) : entryId = wl[i].Id})
      IN IF entryIndx = 0 THEN ErrorResult(StatusNotFound, FALSE)
         ELSE Result(TRUE, reconcileWaitingList(SubSeq(wl, 1, entryIndx - 1)),
                     "none", <<>>, StatusNoContent, TRUE, FALSE)

\* DeleteEntry that treats an unknown entry as already deleted
DeleteEntryIdempotent(wl, entryId) ==
    IF entryId = "" THEN ErrorResult(StatusBadRequest, FALSE)
    ELSE
      LET entryIndx == IndexFunc({i \in 1..Len(wl) : entryId = wl[i].Id})
      IN IF entryIndx = 0
         THEN Result(TRUE, reconcileWaitingList(wl), "none", <<>>,
                     StatusNoContent, TRUE, FALSE)
         ELSE Result(TRUE, reconcileWaitingList(RemoveAt(wl, entryIndx)),
                     "none", <<>>, StatusNoContent, TRUE, FALSE)

\* DeleteWaitingListEntry's closure
DeleteEntry(wl, entryId) ==
    IF entryId = "" THEN ErrorResult(StatusBadRequest, FALSE)
    ELSE
      LET entryIndx == IndexFunc({i \in 1..Len(wl) : entryId = wl[i].Id})
      IN IF entryIndx = 0 THEN ErrorResult(StatusNotFound, FALSE)
         ELSE Result(TRUE, reconcileWaitingList(RemoveAt(wl, entryIndx)),
                     "none", <<>>, StatusNoContent, TRUE, FALSE)

\* GetWaitingListEntries without the replacement of a nil slice
GetEntriesNoNilCheck(wl, wlNil) ==
    Result(FALSE, <<>>, IF wlNil THEN "null" ELSE "list", wl, StatusOK,
           FALSE, FALSE)

\* GetWaitingListEntries that hands the ambulance back for an update
GetEntriesReturnsAggregate(wl, wlNil) ==
    Result(TRUE, wl, "list", wl, StatusOK, FALSE, FALSE)

\* GetWaitingListEntries' closure: a nil WaitingList is replaced by an empty
\* slice, so the payload is an array (kind "list"), never null (kind "null")
GetEntries(wl, wlNil) ==
    LET resultNil == IF wlNil THEN FALSE ELSE wlNil
    IN Result(FALSE, <<>>, IF resultNil THEN "null" ELSE "list", wl, StatusOK,
              FALSE, FALSE)

\* GetWaitingListEntry's closure
GetEntry(wl, entryId) ==
    IF entryId = "" THEN ErrorResult(StatusBadRequest, FALSE)
    ELSE
      LET entryIndx == IndexFunc({i \in 1..Len(wl) : entryId = wl[i].Id})
      IN IF entryIndx = 0 THEN ErrorResult(StatusNotFound, FALSE)
         ELSE Result(FALSE, <<>>, "entry", <<wl[entryIndx]>>, StatusOK,
                     FALSE, FALSE)

\* MergeEntry that overwrites the duration with any non-zero value
MergeEntryNonZeroDuration(stored, body) ==
    [Id |-> IF body.Id # "" THEN body.Id ELSE stored.Id,
     PatientId |-> IF body.PatientId # "" THEN body.PatientId
                   ELSE stored.PatientId,
     WaitingSince |-> IF body.WaitingSince > 0 THEN body.WaitingSince
                      ELSE stored.WaitingSince,
     EstimatedDurationMinutes |->
         IF body.EstimatedDurationMinutes # 0
         THEN body.EstimatedDurationMinutes
         ELSE stored.EstimatedDurationMinutes]

\* MergeEntry that takes the patientId of the body whatever it is
MergeEntryAlwaysPatient(stored, body) ==
    [Id |-> IF body.Id # "" THEN body.Id ELSE stored.Id,
     PatientId |-> body.PatientId,
     WaitingSince |-> IF body.WaitingSince > 0 THEN body.WaitingSince
                      ELSE stored.WaitingSince,
     EstimatedDurationMinutes |->
         IF body.EstimatedDurationMinutes > 0
         THEN body.EstimatedDurationMinutes
         ELSE stored.EstimatedDurationMinutes]

\* The partial-field merge of UpdateWaitingListEntry (lines 258-272)
MergeEntry(stored, body) ==
    [Id |-> IF body.Id # "" THEN body.Id ELSE stored.Id,
     PatientId |-> IF body.PatientId # "" THEN body.PatientId
                   ELSE stored.PatientId,
     WaitingSince |-> IF body.WaitingSince > 0 THEN body.WaitingSince
                      ELSE stored.WaitingSince,
     EstimatedDurationMinutes |->
         IF body.EstimatedDurationMinutes > 0
         THEN body.EstimatedDurationMinutes
         ELSE stored.EstimatedDurationMinutes]

\* UpdateEntry without the reconciliation of the merged list
UpdateEntryNoReconcile(wl, bindOk, entryId, body) ==
    IF ~bindOk THEN ErrorResult(StatusBadRequest, FALSE)
    ELSE IF entryId = "" THEN ErrorResult(StatusBadRequest, FALSE)
    ELSE
      LET entryIndx == IndexFunc({i \in 1..Len(wl) : entryId = wl[i].Id})
      IN IF entryIndx = 0 THEN ErrorResult(StatusNotFound, FALSE)
         ELSE
           LET merged == [wl EXCEPT ![entryIndx] = MergeEntry(wl[entryIndx], body)]
           IN Result(TRUE, merged, "entry", <<merged[entryIndx]>>,
                     StatusOK, TRUE, FALSE)

\* UpdateEntry that merges into a copy of the entry (a range-value copy), so
\* that the list keeps the stored entry
UpdateEntryOnCopy(wl, bindOk, entryId, body) ==
    IF ~bindOk THEN ErrorResult(StatusBadRequest, FALSE)
    ELSE IF entryId = "" THEN ErrorResult(StatusBadRequest, FALSE)
    ELSE
      LET entryIndx == IndexFunc({i \in 1..Len(wl) : entryId = wl[i].Id})
      IN IF entryIndx = 0 THEN ErrorResult(StatusNotFound, FALSE)
         ELSE
           LET reconciled == reconcileWaitingList(wl)
           IN Result(TRUE, reconciled, "entry", <<reconciled[entryIndx]>>,
                     StatusOK, TRUE, FALSE)

\* UpdateWaitingListEntry's closure: the payload is read at entryIndx, the
\* index found before reconciliation
UpdateEntry(wl, bindOk, entryId, body) ==
    IF ~bindOk THEN ErrorResult(StatusBadRequest, FALSE)
    ELSE IF entryId = "" THEN ErrorResult(StatusBadRequest, FALSE)
    ELSE
      LET entryIndx == IndexFunc({i \in 1..Len(wl) : entryId = wl[i].Id})
      IN IF entryIndx = 0 THEN ErrorResult(StatusNotFound, FALSE)
         ELSE
           LET merged == [wl EXCEPT ![entryIndx] = MergeEntry(wl[entryIndx], body)]
               reconciled == reconcileWaitingList(merged)
           IN Result(TRUE, reconciled, "entry", <<reconciled[entryIndx]>>,
                     StatusOK, TRUE, FALSE)

\* ---------------------------------------------------------------- requests
Request(op, entryId, bindOk, body) ==
    [op |-> op, entryId |-> entryId, bindOk |-> bindOk, body |-> body]

NoRequest == Request("none", "", TRUE, ZeroEntry)

\* Bodies of create requests: every id and patient id, waitingSince from the
\* zero time on, the duration of the design document's first scenario; one
\* body without a patient id, and one for a third patient
CreateBodies ==
    {WaitingListEntry(i, p, w, 15) :
        i \in BodyIds, p \in BodyPatientIds \ {""}, w \in TimeVals \ {-1}}
    \cup {WaitingListEntry("", "", 0, 15), WaitingListEntry("", "P3", 1, 15)}

\* Bodies of update requests: the empty body, and every body that supplies
\* one field
UpdateBodies ==
    {ZeroEntry}
    \cup {[ZeroEntry EXCEPT !.Id = i] : i \in BodyIds}
    \cup {[ZeroEntry EXCEPT !.PatientId = p] : p \in BodyPatientIds}
    \cup {[ZeroEntry EXCEPT !.WaitingSince = w] : w \in TimeVals}
    \cup {[ZeroEntry EXCEPT !.EstimatedDurationMinutes = d] : d \in DurVals}

\* entry ids a client may address: none, one that no entry has, or one in use
EntryIds == {"", "zz"} \cup Ids(list)

Requests ==
    {Request("create", "", TRUE, b) : b \in CreateBodies}
    \cup {Request("create", "", FALSE, ZeroEntry)}
    \cup {Request("update", e, TRUE, b) : e \in EntryIds \ {""}, b \in UpdateBodies}
    \cup {Request("update", "", TRUE, ZeroEntry)}
    \cup {Request("update", e, FALSE, ZeroEntry) : e \in Ids(list)}
    \cup {Request(op, e, TRUE, ZeroEntry) : op \in {"delete", "get"}, e \in EntryIds}
    \cup {Request("list", "", TRUE, ZeroEntry)}

NoSnap == [loaded |-> FALSE, list |-> <<>>, isNil |-> FALSE, version |-> 0]
NoResult == Result(FALSE, <<>>, "none", <<>>, 0, FALSE, FALSE)
NoResp == [status |-> 0, kind |-> "none", payload |-> <<>>]

Response(r) == [status |-> r.status, kind |-> r.kind, payload |-> r.payload]

\* -------------------------------------------------------------------- Init
InitHandlers ==
    /\ version = 0
    /\ pc = [p \in Procs |-> "idle"]
    /\ req = [p \in Procs |-> NoRequest]
    /\ snap = [p \in Procs |-> NoSnap]
    /\ out = [p \in Procs |-> NoResult]
    /\ attempts = [p \in Procs |-> 0]
    /\ resp = [p \in Procs |-> NoResp]
    /\ created = 0
    /\ updated = 0
    /\ deleted = 0
    /\ nextUuid = 1
    /\ started = 0

\* The ambulance is provisioned elsewhere: it exists with an empty waiting
\* list or with none (nil), or it does not exist
Init ==
    /\ exists \in BOOLEAN
    /\ list = <<>>
    /\ listNil \in (IF exists THEN BOOLEAN ELSE {FALSE})
    /\ InitHandlers

\* ----------------------------------------------------------------- actions
\* A handler is entered with a request
Receive(p, r) ==
    /\ pc[p] \in {"idle", "done"}
    /\ started < MaxReqs
    /\ started' = started + 1
    /\ pc' = [pc EXCEPT ![p] = "load"]
    /\ req' = [req EXCEPT ![p] = r]
    /\ snap' = [snap EXCEPT ![p] = NoSnap]
    /\ out' = [out EXCEPT ![p] = NoResult]
    /\ attempts' = [attempts EXCEPT ![p] = 0]
    /\ resp' = [resp EXCEPT ![p] = NoResp]
    /\ UNCHANGED <<exists, list, listNil, version, created, updated, deleted, nextUuid>>

\* updateAmbulanceFunc: load(id); an absent aggregate is answered 404 without
\* invoking the closure
Load(p) ==
    /\ pc[p] = "load"
    /\ IF exists
       THEN /\ snap' = [snap EXCEPT ![p] =
                   [loaded |-> TRUE, list |-> list, isNil |-> listNil,
                    version |-> version]]
            /\ pc' = [pc EXCEPT ![p] = "mutate"]
            /\ resp' = resp
       ELSE /\ pc' = [pc EXCEPT ![p] = "done"]
            /\ resp' = [resp EXCEPT ![p] =
                   [status |-> StatusNotFound, kind |-> "error", payload |-> <<>>]]
            /\ snap' = snap
    /\ UNCHANGED <<exists, list, listNil, version, req, out, attempts,
                   created, updated, deleted, nextUuid, started>>

\* updateAmbulanceFunc invokes the handler's closure once per attempt, on the
\* loaded copy, and takes what it returns: a nil aggregate ends the request
\* with the closure's payload and status, anything else goes to the
\* conditional save
Return(p, r) ==
    /\ out' = [out EXCEPT ![p] = r]
    /\ IF r.agg
       THEN /\ pc' = [pc EXCEPT ![p] = "save"]
            /\ resp' = resp
       ELSE /\ pc' = [pc EXCEPT ![p] = "done"]
            /\ resp' = [resp EXCEPT ![p] = Response(r)]
    /\ UNCHANGED <<exists, list, listNil, version, req, snap, attempts, started>>

CreateWaitingListEntry(p) ==
    /\ pc[p] = "mutate"
    /\ req[p].op = "create"
    /\ nextUuid <= Len(UuidPool)
    /\ LET r == CreateEntry(snap[p].list, req[p].bindOk, req[p].body,
                            UuidPool[nextUuid])
       IN /\ nextUuid' = IF r.usedUuid THEN nextUuid + 1 ELSE nextUuid
          /\ created' = IF r.counted THEN created + 1 ELSE created
          /\ Return(p, r)
    /\ UNCHANGED <<updated, deleted>>

DeleteWaitingListEntry(p) ==
    /\ pc[p] = "mutate"
    /\ req[p].op = "delete"
    /\ LET r == DeleteEntry(snap[p].list, req[p].entryId)
       IN /\ deleted' = IF r.counted THEN deleted + 1 ELSE deleted
          /\ Return(p, r)
    /\ UNCHANGED <<created, updated, nextUuid>>

GetWaitingListEntries(p) ==
    /\ pc[p] = "mutate"
    /\ req[p].op = "list"
    /\ Return(p, GetEntries(snap[p].list, snap[p].isNil))
    /\ UNCHANGED <<created, updated, deleted, nextUuid>>

GetWaitingListEntry(p) ==
    /\ pc[p] = "mutate"
    /\ req[p].op = "get"
    /\ Return(p, GetEntry(snap[p].list, req[p].entryId))
    /\ UNCHANGED <<created, updated, deleted, nextUuid>>

UpdateWaitingListEntry(p) ==
    /\ pc[p] = "mutate"
    /\ req[p].op = "update"
    /\ LET r == UpdateEntry(snap[p].list, req[p].bindOk, req[p].entryId,
                            req[p].body)
       IN /\ updated' = IF r.counted THEN updated + 1 ELSE updated
          /\ Return(p, r)
    /\ UNCHANGED <<created, deleted, nextUuid>>

\* conditionalSave succeeds: the stored version is the one that was loaded
SaveOk(p) ==
    /\ pc[p] = "save"
    /\ snap[p].version = version
    /\ list' = out[p].list
    /\ listNil' = FALSE
    /\ version' = version + 1
    /\ pc' = [pc EXCEPT ![p] = "done"]
    /\ resp' = [resp EXCEPT ![p] = Response(out[p])]
    /\ UNCHANGED <<exists, req, snap, out, attempts,
                   created, updated, deleted, nextUuid, started>>

\* conditionalSave reports VersionConflict and the request is retried however
\* many attempts it has made
SaveConflictUnbounded(p) ==
    /\ pc[p] = "save"
    /\ snap[p].version # version
    /\ attempts' = [attempts EXCEPT ![p] = @ + 1]
    /\ pc' = [pc EXCEPT ![p] = "load"]
    /\ resp' = resp
    /\ UNCHANGED <<exists, list, listNil, version, req, snap, out,
                   created, updated, deleted, nextUuid, started>>

\* conditionalSave reports VersionConflict: reload and run the closure again,
\* up to MaxAttempts attempts
SaveConflict(p) ==
    /\ pc[p] = "save"
    /\ snap[p].version # version
    /\ attempts' = [attempts EXCEPT ![p] = @ + 1]
    /\ IF attempts[p] + 1 >= MaxAttempts
       THEN /\ pc' = [pc EXCEPT ![p] = "done"]
            /\ \E s \in {StatusConflict, StatusInternalServerError} :
                 resp' = [resp EXCEPT ![p] =
                     [status |-> s, kind |-> "error", payload |-> <<>>]]
       ELSE /\ pc' = [pc EXCEPT ![p] = "load"]
            /\ resp' = resp
    /\ UNCHANGED <<exists, list, listNil, version, req, snap, out,
                   created, updated, deleted, nextUuid, started>>

\* conditionalSave reports StoreError: 500, no retry
SaveError(p) ==
    /\ pc[p] = "save"
    /\ pc' = [pc EXCEPT ![p] = "done"]
    /\ resp' = [resp EXCEPT ![p] =
           [status |-> StatusInternalServerError, kind |-> "error", payload |-> <<>>]]
    /\ UNCHANGED <<exists, list, listNil, version, req, snap, out, attempts,
                   created, updated, deleted, nextUuid, started>>

\* ---------------------------------------------------------- specifications
\* Requests handled one after the other, from an empty waiting list: with a
\* single request in flight no conditional save meets a version conflict
Next ==
    \/ \E r \in Requests : Receive("p1", r)
    \/ Load("p1")
    \/ CreateWaitingListEntry("p1")
    \/ DeleteWaitingListEntry("p1")
    \/ GetWaitingListEntries("p1")
    \/ GetWaitingListEntry("p1")
    \/ UpdateWaitingListEntry("p1")
    \/ SaveOk("p1")
    \/ SaveError("p1")

Spec == Init /\ [][Next]_vars

\* Three handlers, each with one request, running concurrently on an
\* ambulance whose waiting list holds two entries
ConcurrentList ==
    <<WaitingListEntry("a", "P1", 0, 15), WaitingListEntry("b", "P2", 1, 15)>>

ConcurrentRequests ==
    {Request("update", "a", TRUE, [ZeroEntry EXCEPT !.EstimatedDurationMinutes = 30]),
     Request("update", "b", TRUE, [ZeroEntry EXCEPT !.EstimatedDurationMinutes = 30]),
     Request("update", "a", TRUE, [ZeroEntry EXCEPT !.WaitingSince = 2]),
     Request("create", "", TRUE, WaitingListEntry("", "P3", 1, 15)),
     Request("create", "", TRUE, WaitingListEntry(NewSentinel, "P3", 2, 15)),
     Request("delete", "a", TRUE, ZeroEntry),
     Request("get", "a", TRUE, ZeroEntry),
     Request("list", "", TRUE, ZeroEntry)}

InitConcurrent ==
    /\ exists = TRUE
    /\ list = ConcurrentList
    /\ listNil = FALSE
    /\ InitHandlers

ReceiveOnce(p, r) == pc[p] = "idle" /\ Receive(p, r)

NextConcurrent ==
    \E p \in Procs :
        \/ \E r \in ConcurrentRequests : ReceiveOnce(p, r)
        \/ Load(p)
        \/ CreateWaitingListEntry(p)
        \/ DeleteWaitingListEntry(p)
        \/ GetWaitingListEntries(p)
        \/ GetWaitingListEntry(p)
        \/ UpdateWaitingListEntry(p)
        \/ SaveOk(p)
        \/ SaveConflict(p)
        \/ SaveError(p)

SpecConcurrent == InitConcurrent /\ [][NextConcurrent]_vars

\* ------------------------------------------------------------------ claims
\* The closure of p's request has run on snap[p] and handed out[p] back
Handed(p) == pc[p] \in {"save", "done"} /\ out[p].status # 0

\* The index of the entry a request addresses in the loaded list (0: none)
Addressed(p) ==
    IF \E i \in 1..Len(snap[p].list) : snap[p].list[i].Id = req[p].entryId
    THEN CHOOSE i \in 1..Len(snap[p].list) :
            /\ snap[p].list[i].Id = req[p].entryId
            /\ \A j \in 1..(i - 1) : snap[p].list[j].Id # req[p].entryId
    ELSE 0

Without(s, i) == SubSeq(s, 1, i - 1) \o SubSeq(s, i + 1, Len(s))

UniqueIds(s) == \A i, j \in 1..Len(s) : s[i].Id = s[j].Id => i = j
UniquePatientIds(s) ==
    \A i, j \in 1..Len(s) : s[i].PatientId = s[j].PatientId => i = j
Sorted(s) ==
    \A i \in 1..(Len(s) - 1) : s[i].WaitingSince <= s[i + 1].WaitingSince

\* C1: in every list a mutation hands back for persistence no two entries
\* share an id and no two entries share a patientId
C1_Uniqueness ==
    \A p \in Procs :
        Handed(p) /\ out[p].agg =>
            UniqueIds(out[p].list) /\ UniquePatientIds(out[p].list)

C5_Sorted ==
    \A p \in Procs : Handed(p) /\ out[p].agg => Sorted(out[p].list)

\* an update that changed waitingSince handed back a list in which the
\* entries changed places
C5_Witness ==
    \E p \in Procs :
        /\ Handed(p) /\ out[p].agg
        /\ req[p].op = "update"
        /\ Len(out[p].list) = 2
        /\ out[p].list[1].Id = snap[p].list[2].Id
        /\ out[p].list[1].WaitingSince < out[p].list[2].WaitingSince

\* C6: a successful update returns the entry addressed by entryId, with the
\* merged field values
C6_ReturnsUpdatedEntry ==
    \A p \in Procs :
        (Handed(p) /\ req[p].op = "update" /\ out[p].status = StatusOK)
        => (/\ out[p].kind = "entry"
            /\ out[p].payload =
                 <<MergeEntry(snap[p].list[Addressed(p)], req[p].body)>>)

\* C7: a create with a new patientId and an id that is empty or "@new" is
\* answered 200 with an entry carrying a generated id (not empty, not "@new",
\* not an id of the list) and the requested patientId, and that entry is in
\* the list handed back
C7_CreateGeneratesId ==
    \A p \in Procs :
        (/\ Handed(p)
         /\ req[p].op = "create"
         /\ req[p].bindOk
         /\ req[p].body.PatientId # ""
         /\ req[p].body.PatientId \notin PatientIds(snap[p].list)
         /\ req[p].body.Id \in {"", NewSentinel})
        => (/\ out[p].status = StatusOK
            /\ out[p].agg
            /\ out[p].kind = "entry"
            /\ Len(out[p].payload) = 1
            /\ out[p].payload[1].Id \notin {"", NewSentinel}
            /\ out[p].payload[1].Id \notin Ids(snap[p].list)
            /\ out[p].payload[1].PatientId = req[p].body.PatientId
            /\ \E i \in 1..Len(out[p].list) : out[p].list[i] = out[p].payload[1])

\* an entry with a generated id was added to a list that held one already
C7_Witness ==
    \E p \in Procs :
        /\ Handed(p)
        /\ req[p].op = "create"
        /\ req[p].body.Id = NewSentinel
        /\ out[p].status = StatusOK
        /\ Len(snap[p].list) = 1
        /\ Len(out[p].list) = 2

\* C8: in a successful update the entries other than the addressed one are
\* unchanged and keep their order; a field of the addressed entry changes only
\* to the body's value, and only if that value is non-empty (id, patientId),
\* not the zero time (waitingSince), strictly positive (duration); a body with
\* only a strictly positive duration changes that field alone, in place
C8_PartialMerge ==
    \A p \in Procs :
        (Handed(p) /\ req[p].op = "update" /\ out[p].status = StatusOK)
        => LET old == snap[p].list
               new == out[p].list
               i == Addressed(p)
               b == req[p].body
           IN /\ i > 0
              /\ Len(new) = Len(old)
              /\ \E j \in 1..Len(new) :
                   /\ Without(new, j) = Without(old, i)
                   /\ new[j].Id # old[i].Id =>
                        b.Id # "" /\ new[j].Id = b.Id
                   /\ new[j].PatientId # old[i].PatientId =>
                        b.PatientId # "" /\ new[j].PatientId = b.PatientId
                   /\ new[j].WaitingSince # old[i].WaitingSince =>
                        b.WaitingSince # 0 /\ new[j].WaitingSince = b.WaitingSince
                   /\ new[j].EstimatedDurationMinutes # old[i].EstimatedDurationMinutes =>
                        /\ b.EstimatedDurationMinutes > 0
                        /\ new[j].EstimatedDurationMinutes = b.EstimatedDurationMinutes
              /\ (/\ b.Id = "" /\ b.PatientId = "" /\ b.WaitingSince = 0
                  /\ b.EstimatedDurationMinutes > 0)
                 => new = [old EXCEPT ![i].EstimatedDurationMinutes =
                                         b.EstimatedDurationMinutes]

\* an update with only a duration changed the duration of the second of two
\* entries
C8_Witness ==
    \E p \in Procs :
        /\ Handed(p) /\ req[p].op = "update" /\ out[p].status = StatusOK
        /\ req[p].body = [ZeroEntry EXCEPT !.EstimatedDurationMinutes = 30]
        /\ Addressed(p) = 2
        /\ out[p].list[2].EstimatedDurationMinutes = 30
        /\ snap[p].list[2].EstimatedDurationMinutes = 15

\* C9: a delete of an id that an entry has is answered 204, and the list
\* handed back is the loaded list without the first entry with that id
C9_DeleteRemovesEntry ==
    \A p \in Procs :
        (/\ Handed(p)
         /\ req[p].op = "delete"
         /\ req[p].entryId \in Ids(snap[p].list))
        => (/\ out[p].status = StatusNoContent
            /\ out[p].agg
            /\ Len(out[p].list) = Len(snap[p].list) - 1
            /\ out[p].list = Without(snap[p].list, Addressed(p)))

\* the first of two entries was deleted and the deletion was saved
C9_Witness ==
    \E p \in Procs :
        /\ pc[p] = "done" /\ req[p].op = "delete"
        /\ resp[p].status = StatusNoContent
        /\ Len(snap[p].list) = 2
        /\ Addressed(p) = 1
        /\ list = <<snap[p].list[2]>>

Succeeded(p) ==
    pc[p] = "done" /\ out[p].agg /\ resp[p].status = out[p].status

\* no handler outside S has written to the store
OnlyWriters(S) == \A r \in Procs \ S : ~Succeeded(r)

\* the stored entry that p's update addressed carries the body's values
Applied(p) ==
    \E i \in 1..Len(list) :
        /\ list[i].Id = req[p].entryId
        /\ req[p].body.WaitingSince > 0 =>
             list[i].WaitingSince = req[p].body.WaitingSince
        /\ req[p].body.EstimatedDurationMinutes > 0 =>
             list[i].EstimatedDurationMinutes = req[p].body.EstimatedDurationMinutes

PatientCount(s, pid) == Cardinality({i \in 1..Len(s) : s[i].PatientId = pid})

ValidationError(r) ==
    \/ r.op = "create" /\ (~r.bindOk \/ r.body.PatientId = "")
    \/ r.op \in {"delete", "get"} /\ r.entryId = ""
    \/ r.op = "update" /\ (~r.bindOk \/ r.entryId = "")

\* C11: a request with a validation error is answered 400 and the aggregate
\* was not loaded on the way to that answer, whether or not the ambulance
\* exists
C11_ValidationIs400 ==
    \A p \in Procs :
        pc[p] = "done" /\ ValidationError(req[p]) =>
            resp[p].status = StatusBadRequest /\ ~snap[p].loaded

\* the number of handlers whose request of kind op was persisted
SucceededOps(op) ==
    Cardinality({p \in Procs : req[p].op = op /\ Succeeded(p)})

\* C12: each counter equals the number of requests of its kind whose result
\* was persisted: it is incremented only once the operation has succeeded,
\* once per success, and not at all for a result that a version conflict or
\* a store error kept out of the store
C12_CountedAfterSuccess ==
    /\ created = SucceededOps("create")
    /\ updated = SucceededOps("update")
    /\ deleted = SucceededOps("delete")

\* C13: whatever a list or get request is answered (200, 400, 404), its
\* closure handed back a nil aggregate, the request ended without a save and
\* the stored list and its version are those that were loaded for it
C13_ReadsAreReadOnly ==
    \A p \in Procs :
        Handed(p) /\ req[p].op \in {"list", "get"} =>
            /\ ~out[p].agg
            /\ pc[p] = "done"
            /\ resp[p] = Response(out[p])
            /\ resp[p].status \in {StatusOK, StatusBadRequest, StatusNotFound}
            /\ list = snap[p].list
            /\ listNil = snap[p].isNil
            /\ version = snap[p].version

\* a get answered 200 with an entry of a list that earlier requests wrote
C13_Witness ==
    \E p \in Procs :
        /\ Handed(p)
        /\ req[p].op = "get"
        /\ resp[p].status = StatusOK
        /\ resp[p].kind = "entry"
        /\ Len(list) >= 2
        /\ version = snap[p].version
        /\ version >= 2

\* C14: a list request on an existing ambulance is answered 200 with an
\* array that holds the stored entries in their stored order; for an empty
\* or a nil waiting list the array is empty, and it is never null
C14_ListReturnsArray ==
    \A p \in Procs :
        Handed(p) /\ req[p].op = "list" =>
            /\ resp[p].status = StatusOK
            /\ resp[p].kind = "list"
            /\ resp[p].payload = snap[p].list
            /\ (snap[p].isNil \/ snap[p].list = <<>>) => resp[p].payload = <<>>

\* a list request on an ambulance whose waiting list is nil was answered
C14_Witness ==
    \E p \in Procs :
        /\ Handed(p)
        /\ req[p].op = "list"
        /\ snap[p].isNil
        /\ resp[p].status = StatusOK
        /\ resp[p].kind = "list"
        /\ resp[p].payload = <<>>

\* p's request ended because its attempts were used up by version conflicts
Exhausted(p) == pc[p] = "done" /\ attempts[p] = MaxAttempts

\* The steps that p's request can still take at most: three (load, closure,
\* save) for each attempt that is left, less those taken in the current one
Remaining(p) ==
    3 * (MaxAttempts - attempts[p])
    - (CASE pc[p] = "load" -> 0
         [] pc[p] = "mutate" -> 1
         [] pc[p] = "save" -> 2
         [] OTHER -> 3 * (MaxAttempts - attempts[p]))

\* The guard of the step that p's request takes next holds: a load and the
\* answer to a save have no guard beyond the position of the request, and
\* the closure of the request's operation can run
CanStep(p) ==
    pc[p] = "mutate" =>
        /\ req[p].op \in {"create", "delete", "list", "get", "update"}
        /\ req[p].op = "create" => nextUuid <= Len(UuidPool)

\* the attempts of a request never exceed the bound, a request in flight
\* can take its next step, every attempt runs on an aggregate loaded for it,
\* and a request that used up its attempts was answered 409 or 500 while the
\* store holds the writes of the succeeded requests only
C15_Bounded ==
    /\ \A p \in Procs :
        /\ attempts[p] <= MaxAttempts
        /\ Remaining(p) >= 0
        /\ pc[p] \in {"load", "mutate", "save"} =>
             attempts[p] < MaxAttempts /\ CanStep(p)
        /\ pc[p] \in {"mutate", "save"} =>
             snap[p].loaded /\ snap[p].version >= attempts[p]
        /\ Exhausted(p) =>
             /\ resp[p].status \in {StatusConflict, StatusInternalServerError}
             /\ resp[p].kind = "error"
             /\ ~Succeeded(p)
    /\ version = Cardinality({q \in Procs : Succeeded(q)})

\* every step of a request in flight leaves it fewer steps to take, and a
\* step that follows a version conflict is a load
C15_Progress ==
    \A p \in Procs :
        pc[p] \in {"load", "mutate", "save"} /\ pc'[p] # pc[p] =>
            /\ Remaining(p)' < Remaining(p)
            /\ attempts'[p] # attempts[p] =>
                 pc[p] = "save" /\ pc'[p] \in {"load", "done"}

\* C15: under version conflicts a request terminates: it makes at most
\* MaxAttempts attempts, each on a freshly loaded aggregate, every step it
\* takes brings it closer to its end, and a request that exceeds the bound
\* ends with 409 or an internal error and none of its writes is in the store
C15_TerminatesUnderConflicts ==
    []C15_Bounded /\ [][C15_Progress]_vars

\* an update lost every conditional save to the writes of the two other
\* requests and ended with a conflict
C15_Witness ==
    \E p \in Procs :
        /\ req[p].op = "update"
        /\ Exhausted(p)
        /\ resp[p].status = StatusConflict
        /\ \A q \in Procs \ {p} : Succeeded(q)
        /\ version = 2

\* The list that the closure of p's mutation passed to reconcileWaitingList:
\* the loaded list with the new entry appended (line 122), with the addressed
\* entry removed (line 175) or with the addressed entry merged (lines 258-272)
Unreconciled(p) ==
    CASE req[p].op = "create" -> Append(snap[p].list, out[p].payload[1])
      [] req[p].op = "delete" -> Without(snap[p].list, Addressed(p))
      [] req[p].op = "update" ->
           [snap[p].list EXCEPT ![Addressed(p)] = MergeEntry(@, req[p].body)]

\* C16: for the list L that a create, delete or update reconciles, reconciling
\* the reconciled list gives the sequence that reconciling L once gives, also
\* when entries of L have equal waitingSince
C16_ReconcileIdempotent ==
    \A p \in Procs :
        Handed(p) /\ out[p].agg =>
            /\ reconcileWaitingList(Unreconciled(p)) = out[p].list
            /\ reconcileWaitingList(reconcileWaitingList(Unreconciled(p)))
                 = reconcileWaitingList(Unreconciled(p))

\* a list of three entries was reconciled that was out of order and held two
\* entries with the same waitingSince
C16_Witness ==
    \E p \in Procs :
        /\ Handed(p) /\ out[p].agg
        /\ Len(Unreconciled(p)) = 3
        /\ ~Sorted(Unreconciled(p))
        /\ \E i, j \in 1..3 :
             /\ i # j
             /\ Unreconciled(p)[i].WaitingSince = Unreconciled(p)[j].WaitingSince
        /\ out[p].list # Unreconciled(p)

\* C17: whatever the loaded list and the request, a create never ends with
\* the 500 of lines 128-135: once the conflict check has passed, the appended
\* entry is found by its id in the reconciled list
C17_CreateFindsEntry ==
    \A p \in Procs :
        Handed(p) /\ req[p].op = "create" =>
            /\ out[p].status # StatusInternalServerError
            /\ out[p].status = StatusOK =>
                 /\ out[p].agg
                 /\ out[p].payload[1] \in
                       {out[p].list[i] : i \in 1..Len(out[p].list)}

\* a create with a generated id passed the conflict check against a list of
\* two entries, and reconciliation moved the new entry to the front
C17_Witness ==
    \E p \in Procs :
        /\ Handed(p)
        /\ req[p].op = "create"
        /\ req[p].body.Id \in {"", NewSentinel}
        /\ out[p].status = StatusOK
        /\ Len(snap[p].list) = 2
        /\ out[p].list[1] = out[p].payload[1]
        /\ out[p].list[1].Id \notin {"", NewSentinel}

\* C18: from the empty list, after any sequence of creates, updates and
\* deletes no stored entry has the id "" or "@new"
C18_NoSentinelIds ==
    \A i \in 1..Len(list) : list[i].Id \notin {"", NewSentinel}

\* C19: from the empty list, after any sequence of creates, updates and
\* deletes every entry that is stored or handed back for persistence has a
\* non-empty patientId: a create without one is answered 400 and leaves the
\* list alone, and an update with an empty patientId keeps the stored one
C19_PatientIdNonEmpty ==
    /\ \A i \in 1..Len(list) : list[i].PatientId # ""
    /\ \A p \in Procs :
        /\ Handed(p) /\ out[p].agg =>
             \A i \in 1..Len(out[p].list) : out[p].list[i].PatientId # ""
        /\ Handed(p) /\ req[p].op = "create" /\ req[p].body.PatientId = "" =>
             out[p].status = StatusBadRequest /\ ~out[p].agg
        /\ (/\ Handed(p) /\ out[p].agg
            /\ req[p].op = "update" /\ req[p].body.PatientId = "") =>
             PatientIds(out[p].list) = PatientIds(snap[p].list)

\* an update whose body carries no patientId was persisted on a list of two
\* entries
C19_Witness ==
    \E p \in Procs :
        /\ Succeeded(p)
        /\ req[p].op = "update"
        /\ req[p].body.PatientId = ""
        /\ Len(list) = 2
        /\ PatientIds(list) = {"P1", "P2"}

====
